---------------------------- MODULE Spec2Model ----------------------------
(***************************************************************************)
(* Model of wtritch/projecteuler (TypeScript):                             *)
(*   sorted-linked-list.ts  SortedLinkedList (insert, getValue, create)    *)
(*   problem-3.ts           primeGenerator, isPrime, primeFactors          *)
(*   problem-4.ts           Problem4.bruteForce, isPalindrome              *)
(*                                                                         *)
(* A linked list is the sequence of the values of its nodes, head first.   *)
(* A ValuedIterator over multipleGenerator(p, null) is the record          *)
(* [p |-> p, cur |-> currentValue].                                        *)
(***************************************************************************)
EXTENDS Integers, Sequences, FiniteSets

VARIABLES
    \* primeGenerator (problem-3.ts:114-171)
    maxValue,                  \* <<>> when the argument is omitted, <<B>> otherwise
    pc,                        \* position of the generator
    value,                     \* the candidate
    primeMultipleGenerators,   \* the sorted list of cursors
    yielded,                   \* the values handed to the consumer so far
    donePulls,                 \* pulls made after the generator returned
    \* SortedLinkedList used on its own (sorted-linked-list.ts)
    lst,                       \* the list held by the caller
    elems,                     \* the base primes of the cursors the caller put in, with counts
    res,                       \* outcome of the caller's last call
    \* isPrime / primeFactors called as functions (problem-3.ts:63-106)
    arg,                       \* the argument
    phase,                     \* "input", "isPrime", "primeFactors"
    primeRet,                  \* what isPrime returned
    factorsRet,                \* what primeFactors returned
    \* Problem4.bruteForce (problem-4.ts:14-33)
    p4pc,                      \* "loop", "done"
    p4maxValue,                \* Problem4.maxValue
    i,                         \* the outer generator's current value
    j,                         \* the inner generator's current value
    maxPalindrome

genVars  == <<maxValue, pc, value, primeMultipleGenerators, yielded, donePulls>>
listVars == <<lst, elems, res>>
pureVars == <<arg, phase, primeRet, factorsRet>>
p4Vars   == <<p4pc, p4maxValue, i, j, maxPalindrome>>
vars     == <<genVars, listVars, pureVars, p4Vars>>

---------------------------------------------------------------------------
(* Bounds of the model *)

\* largest bound handed to primeGenerator
MaxBound == 130
\* an unbounded generator is followed while its candidate is at most this
MaxCandidate == 130
\* pulls made after the generator has returned
MaxDonePulls == 2
\* SortedLinkedList on its own: values given to create, base of a cursor,
\* length of the list, largest current value of a cursor
MaxInit == 3
MaxListBase == 3
MaxListLen == 4
MaxKey == 7
\* isPrime and primeFactors are called with -MaxNegArg .. MaxArg
MaxNegArg == 3
MaxArg == 130

---------------------------------------------------------------------------
(* ValuedIterator over multipleGenerator(p, null) *)

\* new ValuedIterator(multipleGenerator(p, null)): the constructor pulls the
\* first multiple, which is p itself
NewCursor(p) == [p |-> p, cur |-> p]

\* ValuedIterator.current()
Current(c) == c.cur

\* a cursor whose iterator forgets to advance
CursorNextStuck(c) == c

\* ValuedIterator.next(): the next multiple, multiple += value
CursorNext(c) == [c EXCEPT !.cur = c.cur + c.p]

\* the comparator of primeGenerator: valueA.current() - valueB.current()
Compare(a, b) == Current(a) - Current(b)

\* what a node created without a value holds (values.shift() of an empty
\* array is undefined); no cursor has base 0
Undefined == [p |-> 0, cur |-> 0]

\* calling current() or next() on undefined throws a TypeError
Throws(c) == c = Undefined

---------------------------------------------------------------------------
(* SortedLinkedList *)

\* the walk of insert: the first position k >= from with
\* compare(lst[k], newValue) >= 0, or Len + 1
RECURSIVE WalkTo(_, _, _)
WalkTo(l, newValue, k) ==
    IF k <= Len(l) /\ Compare(l[k], newValue) < 0
    THEN WalkTo(l, newValue, k + 1)
    ELSE k

\* SortedLinkedList.insert on the head node of l (l is not empty)
Insert(l, newValue) ==
    IF Compare(l[1], newValue) > 0
    THEN <<newValue>> \o l
    ELSE LET k == WalkTo(l, newValue, 2)
         IN  SubSeq(l, 1, k - 1) \o <<newValue>> \o SubSeq(l, k, Len(l))

\* values.sort(comparator.compare): one element put in its place among the
\* sorted ones, behind its equals (the sort is stable)
RECURSIVE SortedPos(_, _, _)
SortedPos(s, v, k) ==
    IF k <= Len(s) /\ Compare(s[k], v) <= 0
    THEN SortedPos(s, v, k + 1)
    ELSE k

RECURSIVE ArraySort(_)
ArraySort(values) ==
    IF values = <<>> THEN <<>>
    ELSE LET n == Len(values)
             s == ArraySort(SubSeq(values, 1, n - 1))
             k == SortedPos(s, values[n], 1)
         IN  SubSeq(s, 1, k - 1) \o <<values[n]>> \o SubSeq(s, k, Len(s))

\* SortedLinkedList.create: the head node takes values.shift(), undefined
\* when no value was given; the other values are linked behind it
Create(values) ==
    IF values = <<>> THEN <<Undefined>> ELSE ArraySort(values)

\* SortedLinkedList.getValue on the head node
GetValue(l) == l[1]

\* SortedLinkedList.getNext on the head node: the list behind it
GetNext(l) == Tail(l)

---------------------------------------------------------------------------
(* primeGenerator *)

\* the primes yielded before the loop
Seeds == <<2, 3, 5, 7>>

\* the cursors the list is created with
SeedCursors == <<NewCursor(3), NewCursor(5), NewCursor(7)>>

\* the first candidate of the loop
FirstCandidate == 11

IsNullOrUndefined(m) == m = <<>>

\* the condition of the inner while loop
SiftCondition(l, v) == Current(GetValue(l)) < v

\* lines 146-147: the head's cursor is advanced and put back into the
\* list behind the head; the old head node is dropped
Resift(l) ==
    LET currentGenerator == CursorNext(GetValue(l))
    IN  Insert(GetNext(l), currentGenerator)

\* a loop body that steps the candidate by one instead of two
SiftBodyStepsByOne(l, v) ==
    LET l2 == Resift(l)
    IN  [list  |-> l2,
         value |-> IF Current(GetValue(l2)) = v THEN v + 1 ELSE v]

\* a loop body that never tests the new head against the candidate
SiftBodyNoTest(l, v) ==
    [list |-> Resift(l), value |-> v]

\* one turn of the inner while loop (lines 146-153)
SiftBody(l, v) ==
    LET l2 == Resift(l)
    IN  [list  |-> l2,
         value |-> IF Current(GetValue(l2)) = v THEN v + 2 ELSE v]

\* the test before the yield (line 157)
BoundReached(m, v) == ~IsNullOrUndefined(m) /\ v >= m[1]

\* lines 165-166
AddGenerator(l, v) == Insert(l, NewCursor(v))

InitGen ==
    /\ maxValue \in {<<>>} \cup {<<b>> : b \in 0..MaxBound}
    /\ pc = "seeds"
    /\ value = FirstCandidate
    /\ primeMultipleGenerators = Create(SeedCursors)
    /\ yielded = <<>>
    /\ donePulls = 0

\* the unbounded generator is followed up to MaxCandidate
InRange == ~IsNullOrUndefined(maxValue) \/ value <= MaxCandidate

\* yield 2; yield 3; yield 5; yield 7
YieldSeed ==
    /\ pc = "seeds"
    /\ yielded' = Append(yielded, Seeds[Len(yielded) + 1])
    /\ pc' = IF Len(yielded') = Len(Seeds) THEN "sift" ELSE "seeds"
    /\ UNCHANGED <<maxValue, value, primeMultipleGenerators, donePulls, listVars, pureVars, p4Vars>>

SiftStep ==
    /\ pc = "sift"
    /\ InRange
    /\ SiftCondition(primeMultipleGenerators, value)
    /\ LET r == SiftBody(primeMultipleGenerators, value)
       IN  /\ primeMultipleGenerators' = r.list
           /\ value' = r.value
    /\ UNCHANGED <<maxValue, pc, yielded, donePulls, listVars, pureVars, p4Vars>>

SiftExit ==
    /\ pc = "sift"
    /\ InRange
    /\ ~SiftCondition(primeMultipleGenerators, value)
    /\ pc' = "emit"
    /\ UNCHANGED <<maxValue, value, primeMultipleGenerators, yielded, donePulls, listVars, pureVars, p4Vars>>

Break ==
    /\ pc = "emit"
    /\ BoundReached(maxValue, value)
    /\ pc' = "done"
    /\ UNCHANGED <<maxValue, value, primeMultipleGenerators, yielded, donePulls, listVars, pureVars, p4Vars>>

YieldPrime ==
    /\ pc = "emit"
    /\ ~BoundReached(maxValue, value)
    /\ yielded' = Append(yielded, value)
    /\ pc' = "resume"
    /\ UNCHANGED <<maxValue, value, primeMultipleGenerators, donePulls, listVars, pureVars, p4Vars>>

Resume ==
    /\ pc = "resume"
    /\ primeMultipleGenerators' = AddGenerator(primeMultipleGenerators, value)
    /\ value' = value + 2
    /\ pc' = "sift"
    /\ UNCHANGED <<maxValue, yielded, donePulls, listVars, pureVars, p4Vars>>

\* a pull of a generator that has returned: {done: true}, nothing yielded
PullDone ==
    /\ pc = "done"
    /\ donePulls < MaxDonePulls
    /\ donePulls' = donePulls + 1
    /\ UNCHANGED <<maxValue, pc, value, primeMultipleGenerators, yielded, listVars, pureVars, p4Vars>>

NextGen ==
    \/ YieldSeed
    \/ SiftStep
    \/ SiftExit
    \/ Break
    \/ YieldPrime
    \/ Resume
    \/ PullDone

IdleList == lst = <<>> /\ elems = <<>> /\ res = <<>>
IdlePure == arg = 0 /\ phase = "idle" /\ primeRet = FALSE /\ factorsRet = <<>>
IdleP4   == p4pc = "idle" /\ p4maxValue = 0 /\ i = 0 /\ j = 0 /\ maxPalindrome = 0
IdleGen  ==
    /\ maxValue = <<>>
    /\ pc = "idle"
    /\ value = 0
    /\ primeMultipleGenerators = <<>>
    /\ yielded = <<>>
    /\ donePulls = 0

Init == InitGen /\ IdleList /\ IdlePure /\ IdleP4

Next == NextGen

Spec == Init /\ [][Next]_vars

\* the consumer keeps pulling
FairSpec == Spec /\ WF_vars(Next)

---------------------------------------------------------------------------
(* Reference definitions the claims are stated with *)

\* n has no divisor d with 2 <= d and d * d <= n
RefIsPrime(n) == n >= 2 /\ \A d \in 2..n : d * d > n \/ n % d # 0

\* the primes below b, ascending
RECURSIVE RefPrimesBelow(_)
RefPrimesBelow(b) ==
    IF b <= 2 THEN <<>>
    ELSE IF RefIsPrime(b - 1)
         THEN Append(RefPrimesBelow(b - 1), b - 1)
         ELSE RefPrimesBelow(b - 1)

FirstTenPrimes == <<2, 3, 5, 7, 11, 13, 17, 19, 23, 29>>

Bounded == ~IsNullOrUndefined(maxValue)

---------------------------------------------------------------------------
(* Claims about primeGenerator *)

\* C1: a generator with bound B, pulled to exhaustion, has produced exactly
\* the primes below B, each once, ascending, and nothing that is not below B.
C1_BoundedOutputIsSieve ==
    (Bounded /\ pc = "done") => yielded = RefPrimesBelow(maxValue[1])

\* C2: every prefix produced by an unbounded generator is the list of all
\* primes up to its last element, ascending and without repetition, and the
\* first ten values are 2, 3, 5, 7, 11, 13, 17, 19, 23, 29.
C2_UnboundedYieldsThePrimes ==
    (~Bounded /\ yielded # <<>>) =>
        /\ yielded = RefPrimesBelow(yielded[Len(yielded)] + 1)
        /\ Len(yielded) >= Len(FirstTenPrimes) =>
               SubSeq(yielded, 1, Len(FirstTenPrimes)) = FirstTenPrimes

\* the unbounded generator has produced more than ten values and has gone
\* past 121, the first composite that no seed cursor reaches
C2_Witness ==
    /\ ~Bounded
    /\ Len(yielded) > Len(FirstTenPrimes)
    /\ yielded[Len(yielded)] > FirstCandidate * FirstCandidate

\* C3: primeGenerator(0), primeGenerator(2) and primeGenerator(3) yield
\* nothing at all.
C3_SmallBoundsYieldNothing ==
    (Bounded /\ maxValue[1] \in {0, 2, 3}) => yielded = <<>>

\* C6: a generator with a bound reaches its end, and once there it stays
\* there and no pull yields a value.
C6_BoundedTerminates ==
    /\ Bounded ~> (pc = "done")
    /\ [][pc = "done" => (pc' = "done" /\ yielded' = yielded)]_vars

\* a bounded generator that went through the loop, returned, and was pulled again
C6_Witness == Bounded /\ pc = "done" /\ donePulls > 0 /\ Len(yielded) > Len(Seeds)

\* C10: when the inner loop has exited and the candidate is about to be
\* yielded or to end the generator, every cursor is strictly beyond it; and
\* the loop is never left standing on a head equal to the candidate (the
\* candidate has been stepped past it before the loop condition is read).
C10_CursorsBeyondCandidate ==
    /\ pc = "emit" =>
           \A k \in 1..Len(primeMultipleGenerators) :
               Current(primeMultipleGenerators[k]) > value
    /\ pc = "sift" => Current(GetValue(primeMultipleGenerators)) # value

\* the loop has exited on a candidate reached by skipping a composite
C10_Witness ==
    /\ pc = "emit"
    /\ value > FirstCandidate
    /\ ~BoundReached(maxValue, value)
    /\ yielded[Len(yielded)] < value - 2

---------------------------------------------------------------------------
(* SortedLinkedList driven by a caller: create, then insert, the            *)
(* generator's advance-and-reinsert step and getValue, in any order.  An    *)
(* uncaught TypeError ends the caller.                                      *)

ListBases == 1..MaxListBase

\* how many cursors of each base a list holds (base 0: a node without value)
BagOf(l) == [b \in 0..MaxListBase |-> Cardinality({k \in 1..Len(l) : l[k].p = b})]

Cursors(bases) == [k \in 1..Len(bases) |-> NewCursor(bases[k])]

Outcome(op, threw, ret) == [op |-> op, threw |-> threw, ret |-> ret]

Running == res.threw = "none"

\* SortedLinkedList.create(comparator, ...values) with any number of values
InitList ==
    /\ \E n \in 0..MaxInit : \E bases \in [1..n -> ListBases] :
          /\ lst = Create(Cursors(bases))
          /\ elems = BagOf(Cursors(bases))
    /\ res = Outcome("create", "none", Undefined)
    /\ IdleGen /\ IdlePure /\ IdleP4

\* lst = lst.insert(new ValuedIterator(multipleGenerator(b, null))); the
\* first compare (line 23) throws when the head holds no value
ListInsert ==
    /\ Running
    /\ Len(lst) < MaxListLen
    /\ \E b \in ListBases :
          IF Throws(GetValue(lst))
          THEN /\ res' = Outcome("insert", "TypeError", Undefined)
               /\ UNCHANGED <<lst, elems>>
          ELSE /\ lst' = Insert(lst, NewCursor(b))
               /\ elems' = [elems EXCEPT ![b] = @ + 1]
               /\ res' = Outcome("insert", "none", Undefined)
    /\ UNCHANGED <<genVars, pureVars, p4Vars>>

\* cg = lst.getValue(); cg.next(); lst = lst.getNext().insert(cg)
\* (problem-3.ts:143-147).  cg.next() throws when the head holds no value;
\* getNext().insert throws when the head is the only node, after the
\* cursor in it has been advanced.
ListResift ==
    /\ Running
    /\ Current(GetValue(lst)) + GetValue(lst).p <= MaxKey
    /\ IF Throws(GetValue(lst))
       THEN /\ res' = Outcome("resift", "TypeError", Undefined)
            /\ lst' = lst
       ELSE IF GetNext(lst) = <<>>
       THEN /\ res' = Outcome("resift", "TypeError", Undefined)
            /\ lst' = <<CursorNext(GetValue(lst))>>
       ELSE /\ res' = Outcome("resift", "none", Undefined)
            /\ lst' = Resift(lst)
    /\ UNCHANGED <<elems, genVars, pureVars, p4Vars>>

\* lst.getValue(): the value of the head node, whatever it is
ListGetValue ==
    /\ Running
    /\ res' = Outcome("getValue", "none", GetValue(lst))
    /\ UNCHANGED <<lst, elems, genVars, pureVars, p4Vars>>

NextList ==
    \/ ListInsert
    \/ ListResift
    \/ ListGetValue

SpecList == InitList /\ [][NextList]_vars

---------------------------------------------------------------------------
(* Claims about SortedLinkedList *)

Sorted(l) == \A k \in 1..(Len(l) - 1) : Compare(l[k], l[k + 1]) <= 0

HeadIsMinimum(l) == \A k \in 1..Len(l) : Compare(l[1], l[k]) <= 0

\* C7: after create and any sequence of inserts and advance-and-reinsert
\* steps the list is sorted, its head is a minimum, and it holds exactly the
\* cursors that were put in: none lost, none twice.
C7_SortedAndComplete ==
    /\ Sorted(lst)
    /\ HeadIsMinimum(lst)
    /\ BagOf(lst) = elems

\* the container holds no element
IsEmpty == \A b \in 0..MaxListBase : elems[b] = 0

\* C8: getValue on the head of a container that holds no element fails with
\* an Empty error.
C8_EmptyPeekFails ==
    (IsEmpty /\ res.op = "getValue") => res.threw = "Empty"

---------------------------------------------------------------------------
(* primeGenerator consumed by for..of: the sequence of everything yielded *)

\* the inner while loop run to its exit
RECURSIVE Sift(_, _)
Sift(l, v) ==
    IF SiftCondition(l, v)
    THEN LET r == SiftBody(l, v) IN Sift(r.list, r.value)
    ELSE [list |-> l, value |-> v]

\* the outer loop of a generator with a bound: what it yields until it breaks
RECURSIVE PrimesLoop(_, _, _)
PrimesLoop(l, v, m) ==
    LET s == Sift(l, v)
    IN  IF BoundReached(m, s.value)
        THEN <<>>
        ELSE <<s.value>> \o PrimesLoop(AddGenerator(s.list, s.value), s.value + 2, m)

\* everything primeGenerator(b) yields
PrimeGenerator(b) == Seeds \o PrimesLoop(Create(SeedCursors), FirstCandidate, <<b>>)

---------------------------------------------------------------------------
(* isPrime and primeFactors *)

\* the for loop of isPrime; i <= Math.sqrt(value) is i * i <= value
RECURSIVE IsPrimeLoop(_, _)
IsPrimeLoop(v, k) ==
    IF k * k <= v
    THEN IF v % k = 0 \/ v % (k + 2) = 0 THEN FALSE ELSE IsPrimeLoop(v, k + 6)
    ELSE TRUE

isPrime(v) ==
    IF v < 2 THEN FALSE
    ELSE IF v = 2 THEN TRUE
    ELSE IF v % 2 = 0 \/ v % 3 = 0 THEN FALSE
    ELSE IsPrimeLoop(v, 5)

\* Math.floor(Math.sqrt(v)) for v >= 0
FloorSqrt(v) == CHOOSE r \in 0..v : r * r <= v /\ (r + 1) * (r + 1) > v

\* the first prime of the for..of loop that divides v; 0 when the generator
\* is exhausted without one
RECURSIVE FirstDividing(_, _, _)
FirstDividing(v, primes, k) ==
    IF k > Len(primes) THEN 0
    ELSE IF v % primes[k] = 0 THEN primes[k]
    ELSE FirstDividing(v, primes, k + 1)

\* the guard of both push calls: result.length == 0 || result[last] != value
PushGuard(result, v) == Len(result) = 0 \/ result[Len(result)] # v

\* primeFactors(value, existingFactors); falling off the end of the function
\* returns undefined
RECURSIVE primeFactors(_, _)
primeFactors(v, existingFactors) ==
    IF v = 1 THEN [undefined |-> FALSE, factors |-> existingFactors]
    ELSE IF isPrime(v)
    THEN [undefined |-> FALSE,
          factors |-> IF PushGuard(existingFactors, v)
                      THEN Append(existingFactors, v)
                      ELSE existingFactors]
    ELSE LET prime == FirstDividing(v, PrimeGenerator(FloorSqrt(v)), 1)
         IN  IF prime = 0
             THEN [undefined |-> TRUE, factors |-> <<>>]
             ELSE primeFactors(v \div prime,
                               IF PushGuard(existingFactors, v)
                               THEN Append(existingFactors, prime)
                               ELSE existingFactors)

InitPure ==
    /\ arg \in (-MaxNegArg)..MaxArg
    /\ phase = "input"
    /\ primeRet = FALSE
    /\ factorsRet = [undefined |-> FALSE, factors |-> <<>>]
    /\ IdleGen /\ IdleList /\ IdleP4

CallIsPrime ==
    /\ phase = "input"
    /\ primeRet' = isPrime(arg)
    /\ phase' = "isPrime"
    /\ UNCHANGED <<arg, factorsRet, genVars, listVars, p4Vars>>

\* primeFactors(arg, []); for arg < 1 the recursion does not end
CallPrimeFactors ==
    /\ phase = "input"
    /\ arg >= 1
    /\ factorsRet' = primeFactors(arg, <<>>)
    /\ phase' = "primeFactors"
    /\ UNCHANGED <<arg, primeRet, genVars, listVars, p4Vars>>

NextPure ==
    \/ CallIsPrime
    \/ CallPrimeFactors

SpecPure == InitPure /\ [][NextPure]_vars

---------------------------------------------------------------------------
(* Claims about isPrime and primeFactors *)

\* C4: isPrime(N) is false for N < 2 and, for N >= 2, true exactly when no
\* d with 2 <= d <= sqrt(N) divides N.
C4_IsPrimeAgreesWithTrialDivision ==
    phase = "isPrime" => primeRet = RefIsPrime(arg)

RECURSIVE Product(_)
Product(s) == IF s = <<>> THEN 1 ELSE s[1] * Product(Tail(s))

\* C5: for value >= 2, primeFactors(value, []) returns a sequence of primes,
\* ascending, whose product is value.
C5_FactorsMultiplyBack ==
    (phase = "primeFactors" /\ arg >= 2) =>
        /\ ~factorsRet.undefined
        /\ \A k \in 1..Len(factorsRet.factors) : RefIsPrime(factorsRet.factors[k])
        /\ \A k \in 1..(Len(factorsRet.factors) - 1) :
               factorsRet.factors[k] <= factorsRet.factors[k + 1]
        /\ Product(factorsRet.factors) = arg


---------------------------------------------------------------------------
(* Problem4.bruteForce *)

\* Problem4.maxValue
Problem4MaxValue == 999

\* value.toString(10) for value >= 0, as the sequence of its digits
RECURSIVE ToString10(_)
ToString10(v) == IF v < 10 THEN <<v>> ELSE ToString10(v \div 10) \o <<v % 10>>

\* Problem4.isPalindrome: the characters at i and length - i - 1 are
\* compared for i = 0 .. Math.floor(length / 2)
isPalindrome(v) ==
    LET strValue == ToString10(v)
    IN  \A k \in 0..(Len(strValue) \div 2) :
            strValue[k + 1] = strValue[Len(strValue) - k]

\* bruteForce is run with maxValue 9, 99 and Problem4.maxValue
InitP4 ==
    /\ p4maxValue \in {9, 99, Problem4MaxValue}
    /\ p4pc = "loop"
    /\ i = p4maxValue
    /\ j = p4maxValue
    /\ maxPalindrome = 0
    /\ IdleGen /\ IdleList /\ IdlePure

\* one turn of the inner loop: the first palindrome ends both loops; else
\* the inner decendingGenerator(i) goes on down to 1, and when it is
\* exhausted the outer decendingGenerator(maxValue) goes on
InnerStep ==
    /\ p4pc = "loop"
    /\ IF isPalindrome(i * j)
       THEN /\ maxPalindrome' = i * j
            /\ p4pc' = "done"
            /\ UNCHANGED <<i, j>>
       ELSE IF j > 1
       THEN /\ j' = j - 1
            /\ UNCHANGED <<i, p4pc, maxPalindrome>>
       ELSE IF i > 1
       THEN /\ i' = i - 1
            /\ j' = i - 1
            /\ UNCHANGED <<p4pc, maxPalindrome>>
       ELSE /\ p4pc' = "done"
            /\ UNCHANGED <<i, j, maxPalindrome>>
    /\ UNCHANGED <<p4maxValue, genVars, listVars, pureVars>>

NextP4 == InnerStep

SpecP4 == InitP4 /\ [][NextP4]_vars

---------------------------------------------------------------------------
(* Claim about Problem4.bruteForce *)

RECURSIVE Reverse(_)
Reverse(s) == IF s = <<>> THEN <<>> ELSE Append(Reverse(Tail(s)), s[1])

RefPalindrome(v) == ToString10(v) = Reverse(ToString10(v))

\* the numbers with as many digits as m, up to m
SameDigits(m) == ((m + 1) \div 10)..m

\* C9: the maxPalindrome reported by bruteForce is the largest palindrome
\* that is a product of two numbers with as many digits as maxValue (two
\* 3-digit numbers for 999; 9009 for 99).
C9_LargestPalindromeProduct ==
    p4pc = "done" =>
        /\ p4maxValue = 99 => maxPalindrome = 9009
        /\ RefPalindrome(maxPalindrome)
        /\ \A a \in SameDigits(p4maxValue) : \A b \in SameDigits(p4maxValue) :
               (b <= a /\ a * b > maxPalindrome) => ~RefPalindrome(a * b)
        /\ \E a \in SameDigits(p4maxValue) : \E b \in SameDigits(p4maxValue) :
               a * b = maxPalindrome

============================================================================
